---------------------------- MODULE Spec2Model ----------------------------
(***************************************************************************)
(* State-machine model of the patent assistant's coordination layer        *)
(* (client/components/ToolPanel.jsx):                                      *)
(*                                                                         *)
(*   - the ToolPanel React component (session bootstrap and event relay),  *)
(*     its FunctionCallOutput child (function execution and result         *)
(*     relay), modelled at the granularity of React commits: one render    *)
(*     applies the queued state updates and the new props, then runs the   *)
(*     cleanups and effects whose dependencies changed, children first;    *)
(*   - the express server behind POST /function: the session registry      *)
(*     (currentSession), the document store (the file system under         *)
(*     patents/), and the duplicate ledger (_recentOperations).            *)
(*                                                                         *)
(* Strings that the code builds by concatenation or interpolation are      *)
(* sequences of string tokens; JSON.stringify and JSON.parse are tables    *)
(* over the values the model draws its inputs from.  Every value that may  *)
(* be null in the code is a record, so that it can be compared with Null.  *)
(***************************************************************************)
EXTENDS Integers, Sequences, FiniteSets, TLC

VARIABLES
    \* ---- server (express process) ----
    now,                    \* Date.now() of the server process, in ms
    currentSession,         \* let currentSession (Null or a session record)
    dirs,                   \* directories created under patents/
    docs,                   \* main.md files: path -> content
    recentOperations,       \* patentFunctions._recentOperations: key -> time
    nCalls,                 \* number of POST /function requests handled
    lastCall,               \* the latest request and the response sent for it
    sessions,               \* history: sessions returned by createPatentSession
    templateCalls,          \* history: args -> the create_template calls made with them
    appendedSince,          \* history: title and messages since the last template
    \* ---- client (React) ----
    isSessionActive,        \* prop, as of the last render
    sendClientEvent,        \* prop: identity of the callback, as of the last render
    events,                 \* prop: the event list, most recent first; the
                            \* events behind the head, which are never read
                            \* again, are kept as Older
    functionAdded,          \* state, as of the last render
    functionAddedNext,      \* state, as queued by setFunctionAdded
    functionCallOutput,     \* state, as of the last render
    functionCallOutputNext, \* state, as queued by setFunctionCallOutput
    lastFunctionCallRef,    \* lastFunctionCallRef.current
    executionRef,           \* executionRef.current of the mounted FunctionCallOutput
    result,                 \* result state of the mounted FunctionCallOutput
    executions,             \* executeFunction invocations, in start order
    outbound,               \* events passed to sendClientEvent, in order
    redelivered,            \* history: call instances whose redelivery was dropped
    delivered,              \* history: call instances passed to
                            \* setFunctionCallOutput since the last reset
    configuration           \* history: what became of the last session.update
                            \* passed to sendClientEvent

serverVars == <<now, currentSession, dirs, docs, recentOperations, nCalls,
                lastCall, sessions, templateCalls, appendedSince>>
clientVars == <<isSessionActive, sendClientEvent, events, functionAdded,
                functionAddedNext, functionCallOutput, functionCallOutputNext,
                lastFunctionCallRef, executionRef, result, executions,
                outbound, redelivered, delivered, configuration>>
vars == <<serverVars, clientVars>>

Null == [null |-> TRUE]

\* The value of a parameter that the caller did not pass.
Undefined == [undefined |-> TRUE]

\* ------------------------------------------------------------------ bounds

\* POST /function requests handled in one behaviour.
MaxCalls == 3
\* Clock advances in one behaviour.
MaxTicks == 2
\* Inbound events delivered to the panel in one behaviour.
MaxEvents == 2
\* Executions started by the panel in one behaviour.
MaxExecs == 2
\* Channel activations in one behaviour.
MaxActivations == 2

\* The amounts the clock advances by between requests (ms): with the window
\* of 2000 they give gaps below it (1000, 1100), equal to it (2000) and
\* above it (2100, 2200, ...).
Deltas == {1000, 1100}

MaxDelta == CHOOSE d \in Deltas : \A e \in Deltas : e <= d

\* ------------------------------------------------------------- JSON values

\* The argument objects of the model, with their JSON text.
JsonTable ==
    << <<"{\"title\":\"A\"}", [title |-> "A"]>>,
       <<"{\"title\":\"B\"}", [title |-> "B"]>>,
       <<"{\"message\":\"m1\"}", [message |-> "m1"]>>,
       <<"{\"message\":\"m2\"}", [message |-> "m2"]>>,
       <<"{}", [empty |-> TRUE]>> >>

JsonTexts == {JsonTable[i][1] : i \in DOMAIN JsonTable}
JsonValues == {JsonTable[i][2] : i \in DOMAIN JsonTable}

\* JSON.stringify of an argument object, as interpolated into a template
\* literal: JSON.stringify(undefined) is undefined.
JsonStringify(value) ==
    IF value = Undefined THEN "undefined"
    ELSE LET i == CHOOSE j \in DOMAIN JsonTable : JsonTable[j][2] = value
         IN  JsonTable[i][1]

\* JSON.parse of a text: the value, or the SyntaxError it throws.
JsonParse(text) ==
    IF text \in JsonTexts
    THEN LET i == CHOOSE j \in DOMAIN JsonTable : JsonTable[j][1] = text
         IN  [ok |-> TRUE, value |-> JsonTable[i][2]]
    ELSE [ok |-> FALSE, error |-> <<"Unexpected token in JSON">>]

\* ------------------------------------------------------------------ server

TimeWindow == 2000

\* path.join(process.cwd(), 'patents', sessionId)
SessionPath(sessionId) == <<"patents", sessionId>>

\* path.join(session.path, 'main.md')
MdPath(session) == session.path \o <<"main.md">>

getCurrentSession == currentSession

\* The record createPatentSession builds at the current time.
NewSession(title) ==
    [id |-> ToString(now), title |-> title,
     path |-> SessionPath(ToString(now)),
     createdAt |-> now, lastModified |-> now]

createPatentSession_KeepFirst(title) ==
    IF currentSession = Null THEN NewSession(title) ELSE currentSession

\* createPatentSession: the value it assigns to currentSession and returns
\* (mkdirSync is the handler's step before it).
createPatentSession(title) == NewSession(title)

\* updateSessionModified: the new value of currentSession.
updateSessionModified ==
    IF currentSession # Null
    THEN [currentSession EXCEPT !.lastModified = now]
    ELSE currentSession

\* The key of _checkDuplicate: `${operation}-${JSON.stringify(args)}`.
OperationKey(operation, args) == <<operation, "-", JsonStringify(args)>>

isDuplicate_NoWindow(operation, args) ==
    OperationKey(operation, args) \in DOMAIN recentOperations

\* _checkDuplicate, its return value: lastTime && (now - lastTime) < timeWindow.
isDuplicate(operation, args) ==
    LET key == OperationKey(operation, args)
    IN  /\ key \in DOMAIN recentOperations
        /\ recentOperations[key] # 0
        /\ now - recentOperations[key] < TimeWindow

\* The ledger with the entries older than the window deleted.
Purged(ledger) ==
    LET keep == {k \in DOMAIN ledger : ~(now - ledger[k] > TimeWindow)}
    IN  [k \in keep |-> ledger[k]]

checkDuplicateLedger_AlwaysStamp(operation, args) ==
    Purged((OperationKey(operation, args) :> now) @@ recentOperations)

checkDuplicateLedger_NoPurge(operation, args) ==
    IF isDuplicate(operation, args)
    THEN recentOperations
    ELSE (OperationKey(operation, args) :> now) @@ recentOperations

\* _checkDuplicate, its effect on _recentOperations: a duplicate returns
\* before the ledger is touched; otherwise the key is stamped and the old
\* entries are deleted.
checkDuplicateLedger(operation, args) ==
    IF isDuplicate(operation, args)
    THEN recentOperations
    ELSE Purged((OperationKey(operation, args) :> now) @@ recentOperations)

DuplicateResult ==
    [success |-> FALSE, message |-> <<"Duplicate operation prevented">>]

NoSessionResult_Prompting ==
    [success |-> FALSE,
     message |-> <<"No active patent session found. Would you like to start a new one?">>]

NoSessionResult ==
    [success |-> FALSE, message |-> <<"No active patent session found">>]

FileNotFoundResult ==
    [success |-> FALSE, message |-> <<"Patent file not found">>]

\* The template literal initialMd of create_template.
InitialMd(title) ==
    <<"# ", title,
      "\n\n## Abstract\n[Brief summary of the invention]\n\n## Background\n[Context and existing solutions]\n\n## Summary\n[Overview of the invention]\n\n## Detailed Description\n[Complete technical details]\n\n## Claims\n[Legal claims of the patent]\n">>

appendContent_NoSeparator(currentContent, message) ==
    currentContent \o <<message>>

\* send_user_response: currentContent + '\n\n' + message
appendContent(currentContent, message) ==
    currentContent \o <<"\n\n", message>>

\* What the file system may do to a request: nothing, or fail one call.
Faults == {"none", "mkdir", "write", "read"}

\* The file-system calls an operation makes, which are those that may fail.
FaultsOf(name) ==
    CASE name = "create_template" -> {"none", "mkdir", "write"}
      [] name = "send_user_response" -> {"none", "read", "write"}
      [] name \in {"resume_patent_creation", "display_patent"} -> {"none", "read"}
      [] OTHER -> {"none"}

FsError(fault) == <<"EACCES: permission denied, ", fault>>

\* const { title } = args, as interpolated into a template literal.
ArgTitle(args) == IF "title" \in DOMAIN args THEN args.title ELSE "undefined"

\* const { message } = args, as concatenated to a string.
ArgMessage(args) == IF "message" \in DOMAIN args THEN args.message ELSE "undefined"

\* A handler's outcome: the HTTP status and body of the response, and the
\* server state it leaves.  `created` says that createPatentSession returned.
Outcome(status, body, session, newDirs, newDocs, ledger, created) ==
    [status |-> status, body |-> body, session |-> session, dirs |-> newDirs,
     docs |-> newDocs, ledger |-> ledger, created |-> created]

\* A handler that returns `body` and changes nothing.
Reply(body) == Outcome(200, body, currentSession, dirs, docs, recentOperations, FALSE)

\* An exception that escapes the handler: the route's catch answers 500.
Thrown(error) ==
    Outcome(500, [error |-> error], currentSession, dirs, docs, recentOperations, FALSE)

\* patentFunctions.create_template
create_template(args, fault) ==
    LET ledger == checkDuplicateLedger("create_template", args)
        title == ArgTitle(args)
        session == createPatentSession(title)
        mdPath == MdPath(session)
        initialMd == InitialMd(title)
    IN  IF isDuplicate("create_template", args)
        THEN Outcome(200, DuplicateResult, currentSession, dirs, docs, ledger, FALSE)
        ELSE IF fault = "mkdir"
        THEN \* mkdirSync throws inside createPatentSession, before the assignment
             Outcome(200, [success |-> FALSE, error |-> FsError(fault)],
                     currentSession, dirs, docs, ledger, FALSE)
        ELSE IF fault = "write"
        THEN \* writeFileSync throws after createPatentSession returned
             Outcome(200, [success |-> FALSE, error |-> FsError(fault)],
                     session, dirs \cup {session.path}, docs, ledger, TRUE)
        ELSE Outcome(200,
                     [success |-> TRUE, path |-> session.path, content |-> initialMd,
                      message |-> <<"Created new patent document for \"", title,
                                    "\". Let's start documenting your invention.">>],
                     session, dirs \cup {session.path},
                     (mdPath :> initialMd) @@ docs, ledger, TRUE)

resume_patent_creation_Forgets(fault) ==
    Outcome(200,
            IF isDuplicate("resume_patent_creation", [empty |-> TRUE])
            THEN DuplicateResult
            ELSE [success |-> FALSE,
                  message |-> <<"No active patent session found. Would you like to start a new one?">>],
            currentSession, dirs, docs,
            checkDuplicateLedger("resume_patent_creation", [empty |-> TRUE]), FALSE)

\* patentFunctions.resume_patent_creation
resume_patent_creation(fault) ==
    LET ledger == checkDuplicateLedger("resume_patent_creation", [empty |-> TRUE])
        session == getCurrentSession
        after(body) == Outcome(200, body, currentSession, dirs, docs, ledger, FALSE)
    IN  IF isDuplicate("resume_patent_creation", [empty |-> TRUE])
        THEN after(DuplicateResult)
        ELSE IF session = Null
        THEN after([success |-> FALSE,
                    message |-> <<"No active patent session found. Would you like to start a new one?">>])
        ELSE IF MdPath(session) \notin DOMAIN docs
        THEN after(FileNotFoundResult)
        ELSE IF fault = "read"
        THEN Outcome(500, [error |-> FsError(fault)],
                     currentSession, dirs, docs, ledger, FALSE)
        ELSE after([success |-> TRUE, session |-> session,
                    content |-> docs[MdPath(session)],
                    message |-> <<"Reopened patent document for \"", session.title,
                                  "\". Let's continue documenting your invention.">>])

\* patentFunctions.display_patent
display_patent(fault) ==
    LET session == getCurrentSession
    IN  IF session = Null THEN Reply(NoSessionResult)
        ELSE IF MdPath(session) \notin DOMAIN docs THEN Reply(FileNotFoundResult)
        ELSE IF fault = "read" THEN Thrown(FsError(fault))
        ELSE Reply([success |-> TRUE, content |-> docs[MdPath(session)],
                    message |-> <<"Here's your current patent document. Which section would you like to work on?">>])

\* patentFunctions.export_as_pdf
export_as_pdf ==
    LET session == getCurrentSession
    IN  IF session = Null THEN Reply(NoSessionResult)
        ELSE IF MdPath(session) \notin DOMAIN docs THEN Reply(FileNotFoundResult)
        ELSE Reply([success |-> TRUE,
                    message |-> <<"PDF export will be implemented in a future update">>,
                    path |-> session.path \o <<"patent.pdf">>])

send_user_response_Suppressed(args, fault) ==
    LET session == getCurrentSession
        mdPath == MdPath(session)
        ledger == checkDuplicateLedger("send_user_response", args)
    IN  IF isDuplicate("send_user_response", args) THEN Reply(DuplicateResult)
        ELSE IF session = Null
        THEN Outcome(200, NoSessionResult, currentSession, dirs, docs, ledger, FALSE)
        ELSE IF mdPath \notin DOMAIN docs \/ fault # "none"
        THEN Outcome(200, [success |-> FALSE, error |-> FsError(fault)],
                     currentSession, dirs, docs, ledger, FALSE)
        ELSE Outcome(200,
                     [success |-> TRUE,
                      message |-> <<"Content added to the patent document. What else would you like to document?">>],
                     updateSessionModified, dirs,
                     (mdPath :> appendContent(docs[mdPath], ArgMessage(args))) @@ docs,
                     ledger, FALSE)

\* patentFunctions.send_user_response
send_user_response(args, fault) ==
    LET session == getCurrentSession
        message == ArgMessage(args)
        mdPath == MdPath(session)
    IN  IF session = Null THEN Reply(NoSessionResult)
        ELSE IF mdPath \notin DOMAIN docs \/ fault = "read"
        THEN \* readFileSync throws inside the try block
             Reply([success |-> FALSE, error |-> FsError("read")])
        ELSE IF fault = "write"
        THEN Reply([success |-> FALSE, error |-> FsError(fault)])
        ELSE Outcome(200,
                     [success |-> TRUE,
                      message |-> <<"Content added to the patent document. What else would you like to document?">>],
                     updateSessionModified, dirs,
                     (mdPath :> appendContent(docs[mdPath], message)) @@ docs,
                     recentOperations, FALSE)

\* The five operations of the dispatch table.
FunctionNames ==
    {"create_template", "resume_patent_creation", "display_patent",
     "export_as_pdf", "send_user_response"}

\* The other members of the object patentFunctions.
HelperNames == {"_checkDuplicate", "_recentOperations"}

\* patentFunctions._checkDuplicate called by the route as a handler: the
\* request's arguments object is its `operation`, which the template literal
\* turns into "[object Object]"; `args` is not passed; the boolean it
\* returns is the response.
checkDuplicateAsHandler(args) ==
    Outcome(200, [value |-> isDuplicate("[object Object]", Undefined)],
            currentSession, dirs, docs,
            checkDuplicateLedger("[object Object]", Undefined), FALSE)

UnknownFunction(name) ==
    Outcome(400, [error |-> <<"Unknown function: ", name>>],
            currentSession, dirs, docs, recentOperations, FALSE)

\* app.post("/function"): the outcome of a request {name, arguments}.  The
\* route looks the name up in patentFunctions, whose members are the five
\* operations, the function _checkDuplicate and the Map _recentOperations
\* (calling the Map throws a TypeError inside the route's try block).
Dispatch(name, args, fault) ==
    CASE name = "create_template" -> create_template(args, fault)
      [] name = "resume_patent_creation" -> resume_patent_creation(fault)
      [] name = "display_patent" -> display_patent(fault)
      [] name = "export_as_pdf" -> export_as_pdf
      [] name = "send_user_response" -> send_user_response(args, fault)
      [] name = "_checkDuplicate" -> checkDuplicateAsHandler(args)
      [] name = "_recentOperations" ->
            Thrown(<<"patentFunctions[name] is not a function">>)
      [] OTHER -> UnknownFunction(name)

\* The messages appended since the last template, after this request.
AppendedAfter(name, args, out) ==
    IF name = "create_template" /\ out.created
    THEN IF out.body.success
         THEN [title |-> ArgTitle(args), msgs |-> <<>>]
         ELSE Null
    ELSE IF name = "send_user_response" /\ out.status = 200
            /\ out.body.success /\ appendedSince # Null
    THEN [appendedSince EXCEPT !.msgs = Append(@, ArgMessage(args))]
    ELSE appendedSince

\* How a create_template call ended: suppressed as a duplicate, a document
\* created, or failed on the file system.
TemplateOutcome(out) ==
    IF out.body = DuplicateResult THEN "suppressed"
    ELSE IF out.body.success THEN "created"
    ELSE "failed"

\* One request to POST /function, handled to its response.  The handlers
\* await nothing before they return, so a request is one step.
HandleRequest(name, args, fault) ==
    LET out == Dispatch(name, args, fault)
    IN  /\ nCalls' = nCalls + 1
        /\ currentSession' = out.session
        /\ dirs' = out.dirs
        /\ docs' = out.docs
        /\ recentOperations' = out.ledger
        /\ lastCall' = [name |-> name, args |-> args, at |-> now,
                        status |-> out.status, body |-> out.body]
        /\ sessions' = IF out.created
                       THEN Append(sessions, NewSession(ArgTitle(args)))
                       ELSE sessions
        /\ templateCalls' =
               IF name = "create_template"
               THEN (args :> Append(IF args \in DOMAIN templateCalls
                                    THEN templateCalls[args] ELSE << >>,
                                    [at |-> now, outcome |-> TemplateOutcome(out)]))
                    @@ templateCalls
               ELSE templateCalls
        /\ appendedSince' = AppendedAfter(name, args, out)
        /\ UNCHANGED now

\* ------------------------------------------------------------------ client

\* const sessionUpdate
sessionUpdate ==
    [type |-> "session.update",
     session |-> [instructions |-> <<"You are ScreenSense AI, a communication interface between inventors and patent lawyers.">>]]

\* The outputs a response.done event of the model may carry.
FcCreate ==
    [type |-> "function_call", name |-> "create_template",
     arguments |-> "{\"title\":\"A\"}", call_id |-> "call_1"]

FcResume ==
    [type |-> "function_call", name |-> "resume_patent_creation",
     arguments |-> "{}", call_id |-> "call_2"]

FcMalformed ==
    [type |-> "function_call", name |-> "display_patent",
     arguments |-> "{\"section\":", call_id |-> "call_3"]

MessageItem == [type |-> "message"]

ResponseDone(outputs) == [type |-> "response.done", response |-> [output |-> outputs]]

\* The inbound events of the model.
EventPool ==
    { ResponseDone(<<FcCreate>>),
      ResponseDone(<<FcResume>>),
      ResponseDone(<<FcCreate, MessageItem, FcMalformed>>),
      [type |-> "response.done", response |-> [status |-> "cancelled"]],
      [type |-> "session.created"] }

\* An event behind the head of the list.
Older == [type |-> "older"]

\* The parent's list with `event` put at its head.
Prepend(event, list) == <<event>> \o [i \in DOMAIN list |-> Older]

\* JSON.stringify(output): the text of a function_call output.  Two outputs
\* have the same text iff their fields are equal, whichever objects they are.
StringifyOutput(output) ==
    [json |-> <<output.type, output.name, output.arguments, output.call_id>>]

\* The object that event number `eventNo` carries at position `pos`.
Delivered(output, eventNo, pos) == [inst |-> <<eventNo, pos>>, call |-> output]

RECURSIVE RelayOutputs_KeepsFirst(_, _, _, _)
RelayOutputs_KeepsFirst(outputs, pos, eventNo, relay) ==
    IF pos > Len(outputs) THEN relay
    ELSE LET output == outputs[pos]
         IN  IF output.type # "function_call"
             THEN RelayOutputs_KeepsFirst(outputs, pos + 1, eventNo, relay)
             ELSE IF StringifyOutput(output) = relay.last
             THEN RelayOutputs_KeepsFirst(outputs, pos + 1, eventNo,
                      [relay EXCEPT !.redelivered =
                          IF relay.fco # Null THEN @ \cup {relay.fco.inst} ELSE @])
             ELSE RelayOutputs_KeepsFirst(outputs, pos + 1, eventNo,
                      [relay EXCEPT !.last = IF @ = Null THEN StringifyOutput(output) ELSE @,
                                    !.fco = Delivered(output, eventNo, pos),
                                    !.delivered = @ \cup {<<eventNo, pos>>}])

\* The forEach of the incoming-events effect from position `pos` on, over
\* relay |-> [last: lastFunctionCallRef.current, fco: the queued
\* functionCallOutput, redelivered, delivered].
RECURSIVE RelayOutputs(_, _, _, _)
RelayOutputs(outputs, pos, eventNo, relay) ==
    IF pos > Len(outputs) THEN relay
    ELSE LET output == outputs[pos]
         IN  IF output.type # "function_call"
             THEN RelayOutputs(outputs, pos + 1, eventNo, relay)
             ELSE IF StringifyOutput(output) = relay.last
             THEN RelayOutputs(outputs, pos + 1, eventNo,
                      [relay EXCEPT !.redelivered =
                          IF relay.fco # Null THEN @ \cup {relay.fco.inst} ELSE @])
             ELSE RelayOutputs(outputs, pos + 1, eventNo,
                      [relay EXCEPT !.last = StringifyOutput(output),
                                    !.fco = Delivered(output, eventNo, pos),
                                    !.delivered = @ \cup {<<eventNo, pos>>}])

\* The incoming-events effect on the event list `evs`.
RelayEvents(evs, relay) ==
    IF Len(evs) = 0 THEN relay
    ELSE LET mostRecentEvent == evs[1]
         IN  IF /\ mostRecentEvent.type = "response.done"
                /\ "response" \in DOMAIN mostRecentEvent
                /\ "output" \in DOMAIN mostRecentEvent.response
             THEN RelayOutputs(mostRecentEvent.response.output, 1, Len(evs), relay)
             ELSE relay

NeedsConfiguration_IgnoresFlag(active, added) == active

\* The session-init effect's condition.
NeedsConfiguration(active, added) == active /\ ~added

\* The reset effect on relay state [added, fco, last].
ResetOnInactive(active, st) ==
    IF ~active
    THEN [st EXCEPT !.added = FALSE, !.fco = Null, !.last = Null]
    ELSE st

\* executeFunction's guard on executionRef.current.
MayExecute(ref) == ~ref

\* What a call of the sendClientEvent prop may come to: the event is
\* transmitted, or it is not and the call returns all the same.
SendOutcomes == {"sent", "lost"}

\* One React commit of ToolPanel with props (active, sce, evs): the queued
\* state becomes the rendered state; FunctionCallOutput is mounted,
\* updated or unmounted; effect cleanups run; then the effects whose
\* dependencies changed run, the child's first, ToolPanel's in order.
\* `outcome` is what becomes of the event the init effect sends.
Commit(active, sce, evs, outcome) ==
    LET added == functionAddedNext
        fco == functionCallOutputNext
        wasChild == isSessionActive /\ functionCallOutput # Null
        isChild == active /\ fco # Null
        \* FunctionCallOutput's effect: dependencies [functionCallOutput, sendClientEvent]
        childRuns == isChild /\ (~wasChild \/ fco # functionCallOutput
                                            \/ sce # sendClientEvent)
        cleaned == wasChild /\ (~isChild \/ childRuns)
        refAtEffect == IF cleaned \/ ~wasChild THEN FALSE ELSE executionRef
        starts == childRuns /\ MayExecute(refAtEffect)
        \* session-init effect: dependencies [isSessionActive, functionAdded, sendClientEvent]
        initRuns == active # isSessionActive \/ added # functionAdded
                        \/ sce # sendClientEvent
        sends == initRuns /\ NeedsConfiguration(active, added)
        \* incoming-events effect: dependencies [events]
        relayed == IF evs # events
                   THEN RelayEvents(evs, [last |-> lastFunctionCallRef, fco |-> fco,
                                          redelivered |-> redelivered,
                                          delivered |-> delivered])
                   ELSE [last |-> lastFunctionCallRef, fco |-> fco,
                         redelivered |-> redelivered, delivered |-> delivered]
        \* reset effect: dependencies [isSessionActive]
        final == IF active # isSessionActive
                 THEN ResetOnInactive(active,
                          [added |-> (added \/ sends), fco |-> relayed.fco,
                           last |-> relayed.last])
                 ELSE [added |-> (added \/ sends), fco |-> relayed.fco,
                       last |-> relayed.last]
    IN  /\ isSessionActive' = active
        /\ sendClientEvent' = sce
        /\ events' = evs
        /\ functionAdded' = added
        /\ functionCallOutput' = fco
        /\ executionRef' = IF starts THEN TRUE ELSE IF isChild THEN refAtEffect ELSE FALSE
        /\ result' = IF isChild /\ wasChild THEN result ELSE Null
        /\ executions' =
              LET kept == IF wasChild /\ ~isChild
                          THEN [i \in DOMAIN executions |->
                                   [executions[i] EXCEPT !.live = FALSE]]
                          ELSE executions
              IN  IF starts
                  THEN Append(kept, [fc |-> fco, stage |-> "pending", live |-> TRUE,
                                     response |-> Null, result |-> Null,
                                     sentWhileActive |-> FALSE])
                  ELSE kept
        /\ outbound' = IF sends THEN Append(outbound, sessionUpdate) ELSE outbound
        /\ functionAddedNext' = final.added
        /\ functionCallOutputNext' = final.fco
        /\ lastFunctionCallRef' = final.last
        /\ redelivered' = relayed.redelivered
        /\ delivered' = IF active # isSessionActive /\ ~active
                        THEN {} ELSE relayed.delivered
        /\ configuration' = IF sends THEN outcome ELSE configuration

IsSessionUpdate(e) == e.type = "session.update"

\* The session.update events among the events `sent`.
SessionUpdatesIn(sent) == Cardinality({i \in DOMAIN sent : IsSessionUpdate(sent[i])})

\* The bounds on a commit: events delivered, executions started, activations.
WithinBounds ==
    /\ Len(events') <= MaxEvents
    /\ Len(executions') <= MaxExecs
    /\ SessionUpdatesIn(outbound') <= MaxActivations

\* The parent renders ToolPanel with new props: the channel's state, a new
\* event at the head of the list, a new sendClientEvent closure, or several
\* of these at once.
ParentRender(active, sce, newEvents, outcome) ==
    /\ active # isSessionActive \/ sce # sendClientEvent \/ newEvents # <<>>
    /\ Commit(active, sce,
              IF newEvents = << >> THEN events ELSE Prepend(newEvents[1], events),
              outcome)
    /\ WithinBounds
    /\ UNCHANGED serverVars

\* ToolPanel re-renders for its own queued state updates.
StateRender ==
    /\ functionAddedNext # functionAdded \/ functionCallOutputNext # functionCallOutput
    /\ Commit(isSessionActive, sendClientEvent, events, "sent")
    /\ WithinBounds
    /\ UNCHANGED serverVars

\* executeFunctionCall's request: JSON.parse(functionCall.arguments), which
\* throws before fetch is called when the text is no JSON.
ParsedArguments(fc) == JsonParse(fc.call.arguments)

\* The request of execution i reaches the server, which answers it.
ServerHandle(i, fault) ==
    /\ i \in DOMAIN executions
    /\ executions[i].stage = "pending"
    /\ ParsedArguments(executions[i].fc).ok
    /\ fault \in FaultsOf(executions[i].fc.call.name)
    /\ HandleRequest(executions[i].fc.call.name,
                     ParsedArguments(executions[i].fc).value, fault)
    /\ executions' = [executions EXCEPT
                         ![i].stage = "responded",
                         ![i].response = [status |-> lastCall'.status,
                                          body |-> lastCall'.body]]
    /\ UNCHANGED <<isSessionActive, sendClientEvent, events, functionAdded,
                   functionAddedNext, functionCallOutput, functionCallOutputNext,
                   lastFunctionCallRef, executionRef, result, outbound, redelivered,
                   delivered, configuration>>

\* executeFunctionCall's return value for execution e: the response body, or
\* { error } for whatever its try block threw.
FunctionResult(e, netFail) ==
    IF ~ParsedArguments(e.fc).ok THEN [error |-> ParsedArguments(e.fc).error]
    ELSE IF netFail THEN [error |-> <<"Failed to fetch">>]
    ELSE IF e.response.status # 200
    THEN [error |-> <<"HTTP error! status: ", ToString(e.response.status)>>]
    ELSE e.response.body

functionResponse_NoError(fc, functionResult) ==
    IF "error" \in DOMAIN functionResult
    THEN << >>
    ELSE << [type |-> "function.response",
             response |-> [function_call |-> fc, output |-> functionResult]] >>

\* What executeFunction passes to sendClientEvent after the await.
functionResponse(fc, functionResult) ==
    << [type |-> "function.response",
        response |-> [function_call |-> fc, output |-> functionResult]] >>

\* The continuation of executeFunction for execution i, once the promise of
\* executeFunctionCall settles: setResult, then sendClientEvent.  fetch
\* rejects (netFail) whether or not the server has handled the request.
Complete(i, netFail) ==
    /\ i \in DOMAIN executions
    /\ executions[i].stage \in {"pending", "responded"}
    /\ IF ParsedArguments(executions[i].fc).ok
       THEN netFail \/ executions[i].stage = "responded"
       ELSE ~netFail
    /\ LET functionResult == FunctionResult(executions[i], netFail)
       IN  /\ result' = IF executions[i].live THEN functionResult ELSE result
           /\ outbound' = outbound \o functionResponse(executions[i].fc, functionResult)
           /\ executions' = [executions EXCEPT
                                ![i].stage = "done",
                                ![i].result = functionResult,
                                ![i].sentWhileActive = isSessionActive]
    /\ UNCHANGED <<isSessionActive, sendClientEvent, events, functionAdded,
                   functionAddedNext, functionCallOutput, functionCallOutputNext,
                   lastFunctionCallRef, executionRef, redelivered, delivered,
                   configuration>>
    /\ UNCHANGED serverVars

\* ------------------------------------------------------------ environment

\* Time passes on the server.
Tick(d) ==
    /\ (now + d) - 1 <= MaxTicks * MaxDelta
    /\ now' = now + d
    /\ UNCHANGED <<currentSession, dirs, docs, recentOperations, nCalls,
                   lastCall, sessions, templateCalls, appendedSince>>
    /\ UNCHANGED clientVars

\* The arguments the model sends with each operation when it posts to the
\* server directly.
ArgsOf(name) ==
    CASE name = "create_template" -> {[title |-> "A"], [title |-> "B"]}
      [] name = "send_user_response" -> {[message |-> "m1"], [message |-> "m2"]}
      [] OTHER -> {[empty |-> TRUE]}

\* Any HTTP client posts {name, arguments} to /function.
PostFunction(name, args, fault) ==
    /\ nCalls < MaxCalls
    /\ HandleRequest(name, args, fault)
    /\ UNCHANGED clientVars

\* ---------------------------------------------------------- specifications

\* The server has started (Date.now() is positive) and ToolPanel has been
\* mounted with an empty event list: its effects have run once.
Init ==
    /\ now = 1
    /\ currentSession = Null
    /\ dirs = {}
    /\ docs = << >>
    /\ recentOperations = << >>
    /\ nCalls = 0
    /\ lastCall = Null
    /\ sessions = << >>
    /\ templateCalls = << >>
    /\ appendedSince = Null
    /\ isSessionActive \in BOOLEAN
    /\ sendClientEvent = 0
    /\ events = << >>
    /\ functionAdded = FALSE
    /\ functionAddedNext = NeedsConfiguration(isSessionActive, FALSE)
    /\ functionCallOutput = Null
    /\ functionCallOutputNext = Null
    /\ lastFunctionCallRef = Null
    /\ executionRef = FALSE
    /\ result = Null
    /\ executions = << >>
    /\ outbound = IF NeedsConfiguration(isSessionActive, FALSE)
                  THEN <<sessionUpdate>> ELSE << >>
    /\ redelivered = {}
    /\ delivered = {}
    /\ configuration = IF NeedsConfiguration(isSessionActive, FALSE)
                       THEN "sent" ELSE "none"

\* The file-system failures drawn for the requests the panel sends.
PanelFaults == {"none", "read"}

\* The panel, the executions it starts and the server that answers them,
\* over a channel that transmits what it is given.  The server's clock
\* stands still here: what the passing of time does to the server is
\* ServerSpec's subject.
Next ==
    \/ \E active \in BOOLEAN, sce \in {0, 1}, newEvents \in {<< >>} \cup {<<e>> : e \in EventPool} :
          ParentRender(active, sce, newEvents, "sent")
    \/ StateRender
    \/ \E i \in 1..MaxExecs, fault \in PanelFaults : ServerHandle(i, fault)
    \/ \E i \in 1..MaxExecs, netFail \in BOOLEAN : Complete(i, netFail)

Spec == Init /\ [][Next]_vars

\* The event loops run: the server answers a request that has reached it,
\* and the continuation of executeFunction runs once its promise settles.
Fairness ==
    \A i \in 1..MaxExecs :
        /\ WF_vars(ServerHandle(i, "none"))
        /\ WF_vars(Complete(i, FALSE))

FairSpec == Spec /\ Fairness

\* The panel alone, over a channel whose sends may fail.
LossyNext ==
    \/ \E active \in BOOLEAN, sce \in {0, 1}, newEvents \in {<< >>} \cup {<<e>> : e \in EventPool} :
          \E outcome \in SendOutcomes : ParentRender(active, sce, newEvents, outcome)
    \/ StateRender

LossySpec == Init /\ [][LossyNext]_vars

\* The server alone, posted to directly.
ServerNext ==
    \/ \E d \in Deltas : Tick(d)
    \/ \E name \in FunctionNames \cup HelperNames \cup {"get_weather"} :
          \E args \in ArgsOf(name), fault \in FaultsOf(name) :
             PostFunction(name, args, fault)

ServerInit == Init /\ ~isSessionActive

ServerSpec == ServerInit /\ [][ServerNext]_vars

\* ------------------------------------------------------------------ claims

IsFunctionResponse(e) == e.type = "function.response"

SessionUpdatesSent == SessionUpdatesIn(outbound)

\* C1: the number of session.update events sent grows by exactly one in a
\* commit that takes isSessionActive from false to true and by none in any
\* other step (a re-render while active, a new sendClientEvent, an inbound
\* event, a deactivation); a panel mounted active has sent exactly one.
C1_OneConfigurationPerActivation ==
    /\ SessionUpdatesSent = IF isSessionActive THEN 1 ELSE 0
    /\ [][ SessionUpdatesSent' - SessionUpdatesSent =
              IF ~isSessionActive /\ isSessionActive' THEN 1 ELSE 0 ]_vars

\* C1 witness: the channel was deactivated and reactivated, the second
\* configuration event is out, and the init effect has re-run since (the
\* callback's identity changed and functionAdded was rendered).
C1_Witness ==
    /\ SessionUpdatesSent = 2
    /\ isSessionActive /\ functionAdded
    /\ sendClientEvent # 0
    /\ Len(events) > 0

ExecutionsOf(inst) == {i \in DOMAIN executions : executions[i].fc.inst = inst}

\* C2 (as claimed): a call whose byte-identical redelivery the relay dropped
\* is executed at most once.
C2_RedeliveredExecutedOnce ==
    \A inst \in redelivered : Cardinality(ExecutionsOf(inst)) <= 1

\* C3 (as claimed): no two executions are started for the same delivered
\* call instance.
C3_OneExecutionPerCall ==
    \A i, j \in DOMAIN executions :
        executions[i].fc.inst = executions[j].fc.inst => i = j

\* The function.response events sent for call object fc with output r.
ResponsesFor(fc, r) ==
    {k \in DOMAIN outbound :
        /\ IsFunctionResponse(outbound[k])
        /\ outbound[k].response.function_call = fc
        /\ outbound[k].response.output = r}

\* The finished executions of call object fc whose result is r.
FinishedWith(fc, r) ==
    {i \in DOMAIN executions :
        /\ executions[i].stage = "done"
        /\ executions[i].fc = fc
        /\ executions[i].result = r}

\* The result of a finished execution is the body of the 200 response it
\* received, and an error object when the arguments did not parse, the
\* request failed or the status was not 200.
ResultIsOutcome(e) ==
    \/ /\ ParsedArguments(e.fc).ok
       /\ e.response # Null
       /\ e.response.status = 200
       /\ e.result = e.response.body
    \/ /\ DOMAIN e.result = {"error"}
       /\ \/ ~ParsedArguments(e.fc).ok
          \/ e.response = Null
          \/ e.response.status # 200
          \/ e.result = [error |-> <<"Failed to fetch">>]

C4_Responses ==
    /\ \A i \in DOMAIN executions :
          executions[i].stage = "done" =>
             /\ ResultIsOutcome(executions[i])
             /\ Cardinality(ResponsesFor(executions[i].fc, executions[i].result))
                   = Cardinality(FinishedWith(executions[i].fc, executions[i].result))
    /\ Cardinality({k \in DOMAIN outbound : IsFunctionResponse(outbound[k])})
          = Cardinality({i \in DOMAIN executions : executions[i].stage = "done"})

\* C4: every execution that is started finishes, and the function.response
\* events sent are exactly one per finished execution, each carrying the
\* delivered call object and that execution's result (an error object when
\* the HTTP call failed), whether or not the channel is still active.
C4_EveryExecutionResponds ==
    /\ []C4_Responses
    /\ \A i \in 1..MaxExecs :
          (i \in DOMAIN executions) ~>
              (i \in DOMAIN executions /\ executions[i].stage = "done")

\* C4 witness: an execution whose HTTP call failed finished while the
\* channel was inactive, and its response event carries the error object.
C4_Witness ==
    \E i \in DOMAIN executions :
        /\ executions[i].stage = "done"
        /\ ParsedArguments(executions[i].fc).ok
        /\ "error" \in DOMAIN executions[i].result
        /\ ~executions[i].sentWhileActive
        /\ ResponsesFor(executions[i].fc, executions[i].result) # {}

\* The create_template calls made so far that created a document.
TemplatesCreated ==
    {<<a, j>> \in UNION {{a} \X DOMAIN templateCalls[a] : a \in DOMAIN templateCalls} :
        templateCalls[a][j].outcome = "created"}

\* C5: among the create_template calls with the same arguments, a call made
\* less than 2000ms after one that created a document is suppressed as a
\* duplicate, and a call made 2000ms or more after every earlier call that
\* was not suppressed is executed again (it creates a document unless the
\* file system fails); no more documents exist than calls that created one.
C5_DuplicateTemplateWindow ==
    /\ \A a \in DOMAIN templateCalls :
          LET calls == templateCalls[a]
          IN  \A j \in DOMAIN calls :
                 /\ (\E i \in 1..(j - 1) :
                        /\ calls[i].outcome = "created"
                        /\ calls[j].at - calls[i].at < TimeWindow)
                       => calls[j].outcome = "suppressed"
                 /\ (\A i \in 1..(j - 1) :
                        calls[i].outcome # "suppressed"
                           => calls[j].at - calls[i].at >= TimeWindow)
                       => calls[j].outcome # "suppressed"
    /\ Cardinality(DOMAIN docs) <= Cardinality(TemplatesCreated)

\* C5 witness: the same create_template call at 0ms (a document), at 1000ms
\* (suppressed) and at 2100ms (a second document).
C5_Witness ==
    \E a \in DOMAIN templateCalls :
        /\ templateCalls[a] = << [at |-> 1, outcome |-> "created"],
                                 [at |-> 1001, outcome |-> "suppressed"],
                                 [at |-> 2101, outcome |-> "created"] >>
        /\ Cardinality(DOMAIN docs) = 2

DuplicateChecked == {"create_template", "resume_patent_creation"}

NoStaleEntry(ledger) == \A k \in DOMAIN ledger : now - ledger[k] <= TimeWindow

C7_NeverSuppressed ==
    [][ (nCalls' = nCalls + 1
            /\ lastCall'.name \in {"send_user_response", "display_patent"})
           => /\ recentOperations' = recentOperations
              /\ lastCall'.body # DuplicateResult
              /\ ( /\ currentSession # Null
                   /\ MdPath(currentSession) \in DOMAIN docs
                   /\ "error" \notin DOMAIN lastCall'.body )
                    => /\ lastCall'.status = 200
                       /\ lastCall'.body.success
                       /\ IF lastCall'.name = "send_user_response"
                          THEN docs'[MdPath(currentSession)] =
                                  docs[MdPath(currentSession)]
                                     \o <<"\n\n", ArgMessage(lastCall'.args)>>
                          ELSE /\ lastCall'.body.content = docs[MdPath(currentSession)]
                               /\ docs' = docs ]_vars

\* C7 witness: the same message was appended twice within the millisecond
\* in which the session was created.
C7_Witness ==
    /\ lastCall # Null /\ lastCall.name = "send_user_response"
    /\ lastCall.body.success
    /\ currentSession # Null /\ currentSession.createdAt = now
    /\ docs[MdPath(currentSession)] =
          InitialMd(currentSession.title) \o <<"\n\n", "m1", "\n\n", "m1">>

\* C8 (as claimed): no two sessions returned by createPatentSession have
\* the same id.
C8_UniqueSessionIds ==
    \A i, j \in DOMAIN sessions : i # j => sessions[i].id # sessions[j].id

SameSession(s, t) ==
    /\ s.id = t.id /\ s.title = t.title
    /\ s.path = t.path /\ s.createdAt = t.createdAt

\* C9: getCurrentSession returns the session of the latest
\* createPatentSession call that returned, and null before any has.
C9_CurrentIsLatest ==
    IF sessions = << >>
    THEN getCurrentSession = Null
    ELSE /\ getCurrentSession # Null
         /\ SameSession(getCurrentSession, sessions[Len(sessions)])

\* C9 witness: two different sessions were created and the second is current.
C9_Witness ==
    /\ Len(sessions) = 2
    /\ sessions[1].id # sessions[2].id /\ sessions[1].title # sessions[2].title
    /\ getCurrentSession # Null
    /\ getCurrentSession.id = sessions[2].id

\* The blocks that N appends add: each message after one blank line.
RECURSIVE Blocks(_)
Blocks(msgs) ==
    IF msgs = << >> THEN << >>
    ELSE <<"\n\n", Head(msgs)>> \o Blocks(Tail(msgs))

\* C10: after a create_template that wrote its document and the successful
\* send_user_response calls that followed it, the current session's document
\* is the skeleton followed by their messages in call order, each after one
\* blank line.
C10_SkeletonThenAppends ==
    appendedSince # Null =>
        /\ currentSession # Null
        /\ MdPath(currentSession) \in DOMAIN docs
        /\ docs[MdPath(currentSession)] =
              InitialMd(appendedSince.title) \o Blocks(appendedSince.msgs)

\* C10 witness: two different messages were appended, m2 before m1.
C10_Witness ==
    /\ appendedSince # Null
    /\ appendedSince.msgs = <<"m2", "m1">>

SessionRequired == {"display_patent", "export_as_pdf", "send_user_response"}

\* C11: a display_patent, export_as_pdf or send_user_response request made
\* while currentSession is null is answered 200 with success false and the
\* message "No active patent session found", and leaves the session
\* registry, the directories and documents and the duplicate ledger as
\* they were.
C11_NoSessionRefused ==
    [][ (nCalls' = nCalls + 1 /\ lastCall'.name \in SessionRequired
            /\ currentSession = Null)
           => /\ lastCall'.status = 200
              /\ lastCall'.body =
                    [success |-> FALSE,
                     message |-> <<"No active patent session found">>]
              /\ currentSession' = Null
              /\ sessions' = sessions
              /\ dirs' = dirs /\ docs' = docs
              /\ recentOperations' = recentOperations ]_vars

\* C11 witness: send_user_response was refused for want of a session while
\* the ledger held an entry (a create_template that failed to make its
\* directory), which is still there.
C11_Witness ==
    /\ lastCall # Null /\ lastCall.name = "send_user_response"
    /\ lastCall.body = [success |-> FALSE,
                        message |-> <<"No active patent session found">>]
    /\ currentSession = Null
    /\ DOMAIN templateCalls # {}
    /\ DOMAIN recentOperations # {}

\* C12 (as claimed): a request whose name is not one of the five operations
\* is answered 400 "Unknown function: <name>", and the ledger holds only
\* keys of the operations that check for duplicates.
C12_UnknownNameRejected ==
    /\ (lastCall # Null /\ lastCall.name \notin FunctionNames)
          => /\ lastCall.status = 400
             /\ lastCall.body = [error |-> <<"Unknown function: ", lastCall.name>>]
    /\ \A key \in DOMAIN recentOperations : key[1] \in DuplicateChecked

\* C13 (as claimed): the body of every response to one of the five
\* operations has a boolean `success` and a `message`.
C13_SuccessAndMessage ==
    (lastCall # Null /\ lastCall.name \in FunctionNames)
        => /\ {"success", "message"} \subseteq DOMAIN lastCall.body
           /\ lastCall.body.success \in BOOLEAN

\* C18 (as claimed): the active session's document exists, and
\* createPatentSession has returned as many sessions as create_template
\* calls have created documents: a failed call leaves the session that was
\* active before it.
C18_SessionWithDocument ==
    /\ currentSession # Null => MdPath(currentSession) \in DOMAIN docs
    /\ Len(sessions) = Cardinality(TemplatesCreated)

\* C19 (as claimed): a create_template call is suppressed as a duplicate
\* only if an earlier call with the same arguments created a document less
\* than 2000ms before it.
C19_SuppressedOnlyAfterCreated ==
    \A a \in DOMAIN templateCalls :
        \A j \in DOMAIN templateCalls[a] :
            templateCalls[a][j].outcome = "suppressed"
                => \E i \in 1..(j - 1) :
                      /\ templateCalls[a][i].outcome = "created"
                      /\ templateCalls[a][j].at - templateCalls[a][i].at < TimeWindow

\* The latest of the calls before the j-th that was executed (0 if none).
LastExecutedBefore(calls, j) ==
    LET executed == {i \in 1..(j - 1) : calls[i].outcome # "suppressed"}
    IN  IF executed = {} THEN 0
        ELSE CHOOSE i \in executed : \A k \in executed : k <= i

\* C20: a create_template call is suppressed exactly when the latest
\* executed (not suppressed) call with the same arguments is less than
\* 2000ms old, however recent the suppressed calls in between are; and the
\* ledger's timestamp for the key, while it has one, is the time of the
\* latest executed call.
C20_SuppressedDoesNotExtend ==
    \A a \in DOMAIN templateCalls :
        LET calls == templateCalls[a]
            key == OperationKey("create_template", a)
            last == LastExecutedBefore(calls, Len(calls) + 1)
        IN  /\ \A j \in DOMAIN calls :
                  LET i == LastExecutedBefore(calls, j)
                  IN  calls[j].outcome = "suppressed"
                         <=> (i # 0 /\ calls[j].at - calls[i].at < TimeWindow)
            /\ key \in DOMAIN recentOperations
                  => (last # 0 /\ recentOperations[key] = calls[last].at)

\* C20 witness: the same create_template call at 0ms (executed), at 1000ms
\* (suppressed) and at 2000ms, 1000ms after the suppressed one (executed).
C20_Witness ==
    \E a \in DOMAIN templateCalls :
        /\ Len(templateCalls[a]) = 3
        /\ templateCalls[a][1].at = 1 /\ templateCalls[a][1].outcome # "suppressed"
        /\ templateCalls[a][2].at = 1001 /\ templateCalls[a][2].outcome = "suppressed"
        /\ templateCalls[a][3].at = 2001 /\ templateCalls[a][3].outcome # "suppressed"
        /\ recentOperations[OperationKey("create_template", a)] = 2001

\* C14: a step that changes isSessionActive leaves the session registry,
\* the directories and the documents as they were; the session only
\* changes in a create_template request (any other step keeps its id,
\* title, path and creation time); and a resume_patent_creation request
\* that is executed (not suppressed as a duplicate, its file read without
\* error) while a session with a document is active returns that session
\* and the document's content.
C14_SessionSurvivesChannelDrop ==
    [][ /\ isSessionActive' # isSessionActive
           => /\ currentSession' = currentSession
              /\ dirs' = dirs /\ docs' = docs /\ sessions' = sessions
        /\ ~(nCalls' = nCalls + 1 /\ lastCall'.name = "create_template")
           => IF currentSession = Null THEN currentSession' = Null
              ELSE currentSession' # Null /\ SameSession(currentSession', currentSession)
        /\ ( /\ nCalls' = nCalls + 1
             /\ lastCall'.name = "resume_patent_creation"
             /\ lastCall'.body # DuplicateResult
             /\ lastCall'.status = 200
             /\ currentSession # Null
             /\ MdPath(currentSession) \in DOMAIN docs )
           => /\ lastCall'.body.success
              /\ lastCall'.body.session = currentSession
              /\ lastCall'.body.content = docs[MdPath(currentSession)] ]_vars

\* C14 witness: create_template was executed and answered while the channel
\* was active, the channel was dropped and activated again (the second
\* session.update is out), and the resume_patent_creation executed after
\* that returned the session and its document.
C14_Witness ==
    /\ Len(executions) = 2
    /\ executions[1].fc.call.name = "create_template"
    /\ executions[1].stage = "done" /\ executions[1].sentWhileActive
    /\ "success" \in DOMAIN executions[1].result /\ executions[1].result.success
    /\ Len(outbound) >= 3 /\ IsFunctionResponse(outbound[2])
    /\ IsSessionUpdate(outbound[3])
    /\ executions[2].fc.call.name = "resume_patent_creation"
    /\ executions[2].stage = "done"
    /\ "session" \in DOMAIN executions[2].result
    /\ executions[2].result.session.title = "A"
    /\ executions[2].result.content = InitialMd("A")

\* C15 (as claimed): the relay is marked configured only if the last
\* session.update it passed to sendClientEvent was transmitted.
C15_ConfiguredOnlyAfterSent ==
    functionAddedNext => configuration = "sent"

\* The panel is at rest: no state update is queued.
AtRest ==
    /\ functionAddedNext = functionAdded
    /\ functionCallOutputNext = functionCallOutput

\* C16 (as claimed): once the panel is active and at rest, every call
\* instance delivered since the last reset has been executed exactly once.
C16_EveryDeliveredExecuted ==
    (isSessionActive /\ AtRest)
        => \A inst \in delivered : Cardinality(ExecutionsOf(inst)) = 1

\* The signature the relay holds when it comes to position p of `outputs`:
\* that of the nearest function_call before p in the same event, or the
\* one it held before the event.
SignatureBefore(outputs, p, last) ==
    LET earlier == {q \in 1..(p - 1) : outputs[q].type = "function_call"}
    IN  IF earlier = {} THEN last
        ELSE StringifyOutput(outputs[CHOOSE q \in earlier : \A r \in earlier : r <= q])

\* C17: in a commit that brings a new response.done event (and does not
\* reset the relay), a function_call output is dropped exactly when its
\* text equals the signature processed immediately before it, and is
\* delivered otherwise, whatever was delivered earlier; the relay then
\* holds the signature of the event's last function_call.
C17_ComparesWithLastOnly ==
    [][ ( /\ events' # events
          /\ ~(isSessionActive /\ ~isSessionActive')
          /\ events'[1].type = "response.done"
          /\ "output" \in DOMAIN events'[1].response )
        => LET outputs == events'[1].response.output
               calls == {p \in DOMAIN outputs : outputs[p].type = "function_call"}
           IN  /\ \A p \in calls :
                     (<<Len(events'), p>> \in delivered')
                        <=> StringifyOutput(outputs[p])
                               # SignatureBefore(outputs, p, lastFunctionCallRef)
               /\ lastFunctionCallRef' =
                     SignatureBefore(outputs, Len(outputs) + 1, lastFunctionCallRef) ]_vars

\* C17 witness: A and then B were delivered by the first event, and the
\* second event's A, identical to the first, was delivered again.
C17_Witness ==
    /\ Len(events) = 2
    /\ events[1] = ResponseDone(<<FcCreate>>)
    /\ {<<1, 1>>, <<1, 3>>, <<2, 1>>} \subseteq delivered
    /\ lastFunctionCallRef = StringifyOutput(FcCreate)
=============================================================================
